---- MODULE Spec2Model ----
(***************************************************************************)
(* The safety-vetting and sandboxed-execution pipeline of src/app.py:      *)
(* static_checks (the walk over the syntax tree), sandbox_run (parse, vet, *)
(* compile, exec under restricted builtins with captured stdout) and the   *)
(* "run" handler that renders the outcome.  One process, the module-level  *)
(* tables built once, any number of sandbox_run calls one after another.   *)
(***************************************************************************)
EXTENDS Integers, Sequences, FiniteSets

VARIABLES
  DANGEROUS_NAMES,        \* app.py:15  module-level set
  DANGEROUS_ATTR_PARENTS, \* app.py:21  module-level set
  ALLOWED_BUILTINS,       \* app.py:23  module-level dict, name -> value
  pc,                     \* position of the current sandbox_run call
  code,                   \* the source text handed to sandbox_run
  tree,                   \* ast.parse's result
  todo,                   \* the deque of ast.walk inside static_checks
  visited,                \* nodes static_checks has looked at without raising
  safe_globals,           \* app.py:109 (its __builtins__ entry is the table itself)
  safe_locals,            \* app.py:110
  ip,                     \* index of the next top-level statement exec runs
  buf,                    \* app.py:111 the StringIO
  console,                \* what the process's real stdout has received
  sys_stdout,             \* the stream sys.stdout names: "console" or "buf"
  signal,                 \* the exception leaving sandbox_run, or NoSignal
  output,                 \* the string sandbox_run returned, or NoOutput
  rendered,               \* what the run handler showed
  trace                   \* observations of the current call (not program state)

vars == <<DANGEROUS_NAMES, DANGEROUS_ATTR_PARENTS, ALLOWED_BUILTINS, pc, code,
          tree, todo, visited, safe_globals, safe_locals, ip, buf, console,
          sys_stdout, signal, output, rendered, trace>>

(***************************************************************************)
(* Bounds of the model.                                                    *)
(***************************************************************************)
\* How many compound statements (if / def) may enclose a vetted construct.
MaxNest == 2
\* Length of the programs drawn from the scoping alphabet.
MaxStmts == 3
\* Depth at which a chain of calls ends in RecursionError.
MaxDepth == 3

(***************************************************************************)
(* Text: a string is a sequence of one-character strings.                  *)
(***************************************************************************)
Digit(d) == CASE d = 0 -> "0" [] d = 1 -> "1" [] d = 2 -> "2" [] d = 3 -> "3"
              [] d = 4 -> "4" [] d = 5 -> "5" [] d = 6 -> "6" [] d = 7 -> "7"
              [] d = 8 -> "8" [] d = 9 -> "9"

RECURSIVE NatToText(_)
NatToText(n) == IF n < 10 THEN <<Digit(n)>>
                ELSE NatToText(n \div 10) \o <<Digit(n % 10)>>

IntToText(n) == IF n < 0 THEN <<"-">> \o NatToText(0 - n) ELSE NatToText(n)

Whitespace == {" ", "\n", "\t"}

RECURSIVE LStrip(_)
LStrip(t) == IF t # <<>> /\ Head(t) \in Whitespace THEN LStrip(Tail(t)) ELSE t

RECURSIVE RStrip(_)
RStrip(t) == IF t # <<>> /\ t[Len(t)] \in Whitespace
             THEN RStrip(SubSeq(t, 1, Len(t) - 1)) ELSE t

Strip(t) == RStrip(LStrip(t))

(***************************************************************************)
(* Python values.                                                          *)
(***************************************************************************)
IntV(n)      == [kind |-> "int", n |-> n]
StrV(s)      == [kind |-> "str", s |-> s]
NoneV        == [kind |-> "none"]
BuiltinV(nm) == [kind |-> "builtin", name |-> nm]
RangeV(n)    == [kind |-> "range", stop |-> n]
\* The one dict object a program can name: the ALLOWED_BUILTINS table.
TableV       == [kind |-> "dict", of |-> "ALLOWED_BUILTINS"]
FunctionV(nm, params, body) ==
  [kind |-> "function", name |-> nm, params |-> params, body |-> body]

(***************************************************************************)
(* The module-level tables as app.py builds them.                          *)
(***************************************************************************)
InitDangerousNames ==
  {"exec", "eval", "__import__", "open", "compile", "input", "help",
   "license", "credits", "os", "sys", "subprocess", "shutil", "pathlib",
   "socket", "requests"}

InitDangerousAttrParents ==
  {"os", "sys", "subprocess", "shutil", "pathlib", "socket"}

BuiltinNames ==
  {"print", "range", "len", "enumerate", "sum", "min", "max", "sorted",
   "abs", "any", "all", "zip"}

InitAllowedBuiltins == [nm \in BuiltinNames |-> BuiltinV(nm)]

(***************************************************************************)
(* Syntax trees.  A node is a record with a type field; the ctx, operator, *)
(* arguments and arg nodes of Python's ast are left out (they are leaves   *)
(* no rule of static_checks matches).                                      *)
(***************************************************************************)
Name(id)            == [type |-> "Name", id |-> id]
Constant(v)         == [type |-> "Constant", const |-> v]
BinOpAdd(l, r)      == [type |-> "BinOp", left |-> l, right |-> r]
Call(f, args)       == [type |-> "Call", func |-> f, args |-> args]
Attribute(v, a)     == [type |-> "Attribute", value |-> v, attr |-> a]
Subscript(v, s)     == [type |-> "Subscript", value |-> v, slice |-> s]
Expr(e)             == [type |-> "Expr", value |-> e]
Assign(t, e)        == [type |-> "Assign", target |-> t, value |-> e]
Return(e)           == [type |-> "Return", value |-> e]
Global(names)       == [type |-> "Global", names |-> names]
Import(names)       == [type |-> "Import", names |-> names]
ImportFrom(m, names) == [type |-> "ImportFrom", module |-> m, names |-> names]
If(t, body)         == [type |-> "If", test |-> t, body |-> body]
With(item, body)    == [type |-> "With", item |-> item, body |-> body]
AsyncWith(item, body) == [type |-> "AsyncWith", item |-> item, body |-> body]
FunctionDef(nm, params, body) ==
  [type |-> "FunctionDef", name |-> nm, params |-> params, body |-> body]
Module(body)        == [type |-> "Module", body |-> body]
\* A stretch of source text that is not a statement (an unclosed bracket).
Malformed           == [type |-> "Malformed"]

\* ast.iter_child_nodes: the child nodes in field order.
Children(node) ==
  CASE node.type \in {"Module", "FunctionDef"} -> node.body
    [] node.type = "If"        -> <<node.test>> \o node.body
    [] node.type \in {"With", "AsyncWith"} -> <<node.item>> \o node.body
    [] node.type \in {"Expr", "Return", "Attribute"} -> <<node.value>>
    [] node.type = "Assign"    -> <<node.target, node.value>>
    [] node.type = "Call"      -> <<node.func>> \o node.args
    [] node.type = "BinOp"     -> <<node.left, node.right>>
    [] node.type = "Subscript" -> <<node.value, node.slice>>
    [] OTHER                   -> <<>>

\* ast.walk: the nodes of the tree in the order the deque yields them.
RECURSIVE Walk(_)
Walk(queue) ==
  IF queue = <<>> THEN <<>>
  ELSE <<Head(queue)>> \o Walk(Tail(queue) \o Children(Head(queue)))

Nodes(t) == Walk(<<t>>)

(***************************************************************************)
(* static_checks, one node at a time.                                      *)
(***************************************************************************)
NoRule == "none"

\* static_checks testing ast.Import alone.
CheckNodeImportOnly(node, names, parents) ==
  IF node.type = "Import" THEN "import"
  ELSE IF /\ node.type = "Call"
          /\ node.func.type = "Name"
          /\ node.func.id \in names THEN "dangerous name"
  ELSE IF /\ node.type = "Call"
          /\ node.func.type = "Attribute"
          /\ node.func.value.type = "Name"
          /\ node.func.value.id \in parents THEN "dangerous attribute call"
  ELSE IF /\ node.type = "Attribute"
          /\ node.value.type = "Name"
          /\ node.value.id \in parents THEN "dangerous attribute"
  ELSE IF node.type \in {"With", "AsyncWith"} THEN "with"
  ELSE NoRule

\* static_checks testing a direct call against the wrong deny set.
CheckNodeWrongSet(node, names, parents) ==
  IF node.type \in {"Import", "ImportFrom"} THEN "import"
  ELSE IF /\ node.type = "Call"
          /\ node.func.type = "Name"
          /\ node.func.id \in parents THEN "dangerous name"
  ELSE IF /\ node.type = "Call"
          /\ node.func.type = "Attribute"
          /\ node.func.value.type = "Name"
          /\ node.func.value.id \in parents THEN "dangerous attribute call"
  ELSE IF /\ node.type = "Attribute"
          /\ node.value.type = "Name"
          /\ node.value.id \in parents THEN "dangerous attribute"
  ELSE IF node.type \in {"With", "AsyncWith"} THEN "with"
  ELSE NoRule

\* static_checks without the rule for attribute access that is not a call.
CheckNodeCallsOnly(node, names, parents) ==
  IF node.type \in {"Import", "ImportFrom"} THEN "import"
  ELSE IF /\ node.type = "Call"
          /\ node.func.type = "Name"
          /\ node.func.id \in names THEN "dangerous name"
  ELSE IF /\ node.type = "Call"
          /\ node.func.type = "Attribute"
          /\ node.func.value.type = "Name"
          /\ node.func.value.id \in parents THEN "dangerous attribute call"
  ELSE IF node.type \in {"With", "AsyncWith"} THEN "with"
  ELSE NoRule

\* The body of the for loop of static_checks (app.py:45-63): the rule that
\* raises SafetyError at this node, or NoRule.
CheckNode(node, names, parents) ==
  IF node.type \in {"Import", "ImportFrom"} THEN "import"
  ELSE IF /\ node.type = "Call"
          /\ node.func.type = "Name"
          /\ node.func.id \in names THEN "dangerous name"
  ELSE IF /\ node.type = "Call"
          /\ node.func.type = "Attribute"
          /\ node.func.value.type = "Name"
          /\ node.func.value.id \in parents THEN "dangerous attribute call"
  ELSE IF /\ node.type = "Attribute"
          /\ node.value.type = "Name"
          /\ node.value.id \in parents THEN "dangerous attribute"
  ELSE IF node.type \in {"With", "AsyncWith"} THEN "with"
  ELSE NoRule

(***************************************************************************)
(* ast.parse and compile.                                                  *)
(***************************************************************************)
\* ast.parse (app.py:106): the source is a sequence of lines of text, each
\* the text of one statement or a malformed stretch; the first malformed
\* line is the SyntaxError's line number (0: the text parses).
RECURSIVE FirstMalformedFrom(_, _)
FirstMalformedFrom(src, i) ==
  IF i > Len(src) THEN 0
  ELSE IF src[i].type = "Malformed" THEN i
  ELSE FirstMalformedFrom(src, i + 1)

FirstMalformed(src) == FirstMalformedFrom(src, 1)

Parse(src) == Module(src)

\* The statements of one scope in source order: compound statements are
\* opened, function bodies are not (they are scopes of their own).
RECURSIVE ScopeStmts(_)
ScopeStmts(body) ==
  IF body = <<>> THEN <<>>
  ELSE LET s == Head(body)
       IN  (IF s.type \in {"If", "With", "AsyncWith"}
            THEN <<s>> \o ScopeStmts(s.body) ELSE <<s>>)
           \o ScopeStmts(Tail(body))

\* The names an expression mentions.
RECURSIVE ExprNames(_)
ExprNames(e) ==
  CASE e.type = "Name"      -> {e.id}
    [] e.type = "BinOp"     -> ExprNames(e.left) \cup ExprNames(e.right)
    [] e.type = "Attribute" -> ExprNames(e.value)
    [] e.type = "Subscript" -> ExprNames(e.value) \cup ExprNames(e.slice)
    [] e.type = "Call"      ->
         ExprNames(e.func)
           \cup UNION {ExprNames(e.args[i]) : i \in 1..Len(e.args)}
    [] OTHER                -> {}

\* The names one statement of a scope uses or binds (a nested def binds its
\* name; its body is another scope).
StmtNames(s) ==
  CASE s.type \in {"Expr", "Return"} -> ExprNames(s.value)
    [] s.type = "Assign"      -> ExprNames(s.target) \cup ExprNames(s.value)
    [] s.type = "If"          -> ExprNames(s.test)
    [] s.type \in {"With", "AsyncWith"} -> ExprNames(s.item)
    [] s.type = "FunctionDef" -> {s.name}
    [] s.type \in {"Import", "ImportFrom"} ->
         {s.names[i] : i \in 1..Len(s.names)}
    [] OTHER                  -> {}

\* The names one statement of a scope binds.
StmtBinds(s) ==
  CASE s.type = "Assign" /\ s.target.type = "Name" -> {s.target.id}
    [] s.type = "FunctionDef" -> {s.name}
    [] s.type \in {"Import", "ImportFrom"} ->
         {s.names[i] : i \in 1..Len(s.names)}
    [] OTHER -> {}

GlobalDecls(body) ==
  LET ss == ScopeStmts(body)
  IN  UNION {IF ss[i].type = "Global"
             THEN {ss[i].names[j] : j \in 1..Len(ss[i].names)} ELSE {}
             : i \in 1..Len(ss)}

\* A function's local names: its parameters and what its body binds,
\* less what the body declares global.
LocalNames(params, body) ==
  LET ss == ScopeStmts(body)
  IN  ({params[i] : i \in 1..Len(params)}
         \cup UNION {StmtBinds(ss[i]) : i \in 1..Len(ss)})
      \ GlobalDecls(body)

\* A global declaration of a name the scope has already used or bound, or
\* of a parameter.
GlobalMisuse(params, body) ==
  LET ss == ScopeStmts(body)
  IN  \E i \in 1..Len(ss) :
        /\ ss[i].type = "Global"
        /\ \E j \in 1..Len(ss[i].names) :
             \/ ss[i].names[j] \in {params[k] : k \in 1..Len(params)}
             \/ \E h \in 1..(i - 1) : ss[i].names[j] \in StmtNames(ss[h])

\* compile (app.py:108) raises SyntaxError for what ast.parse lets through:
\* return outside a function, async with outside an async function, and a
\* misplaced global declaration in the module or in any function.
CompileError(t) ==
  LET ns == Nodes(t)
      top == ScopeStmts(t.body)
  IN  \/ \E i \in 1..Len(top) : top[i].type \in {"Return", "AsyncWith"}
      \/ \E i \in 1..Len(ns) :
           /\ ns[i].type = "FunctionDef"
           /\ \E j \in 1..Len(ScopeStmts(ns[i].body)) :
                ScopeStmts(ns[i].body)[j].type = "AsyncWith"
      \/ GlobalMisuse(<<>>, t.body)
      \/ \E i \in 1..Len(ns) :
           /\ ns[i].type = "FunctionDef"
           /\ GlobalMisuse(ns[i].params, ns[i].body)

(***************************************************************************)
(* exec (app.py:113): the statements and expressions of the programs, run  *)
(* against a machine m = [loc, glo, bi, streams, out, err, tr]:            *)
(*   loc  safe_locals, glo  safe_globals, bi  the ALLOWED_BUILTINS dict,   *)
(*   streams  the text each stream holds, out  the stream sys.stdout names,*)
(*   err  the exception in flight ("" for none), tr  the observations.     *)
(* A frame fr = [fn, fl, lnames, gnames] is the running scope: the module  *)
(* (fn = FALSE) or a function call with its fast locals fl.                *)
(***************************************************************************)
NoError == ""

Raise(m, e) == [m EXCEPT !.err = e]

Put(map, k, v) == [x \in DOMAIN map \cup {k} |-> IF x = k THEN v ELSE map[x]]

ModuleFrame(body) ==
  [fn |-> FALSE, fl |-> <<>>, lnames |-> {}, gnames |-> GlobalDecls(body)]

\* str() of a value, as print writes it.  Digits, signs and whitespace are
\* single characters; the other pieces are fragments of text.
ToText(v) ==
  CASE v.kind = "int"      -> IntToText(v.n)
    [] v.kind = "str"      -> <<v.s>>
    [] v.kind = "none"     -> <<"None">>
    [] v.kind = "builtin"  -> <<"<built-in function ", v.name, ">">>
    [] v.kind = "function" -> <<"<function ", v.name, " at 0x..>">>
    [] v.kind = "range"    -> <<"range(0, ">> \o IntToText(v.stop) \o <<")">>
    [] v.kind = "dict"     -> <<"{..}">>

RECURSIVE JoinTexts(_)
JoinTexts(vs) ==
  IF vs = <<>> THEN <<>>
  ELSE IF Len(vs) = 1 THEN ToText(vs[1])
  ELSE ToText(vs[1]) \o <<" ">> \o JoinTexts(Tail(vs))

\* print(*args): str of each argument, separated by a space, then a
\* newline, written to whatever sys.stdout names at the time of the call.
PyPrint(vs, m) ==
  LET text == JoinTexts(vs) \o <<"\n">>
  IN  [m EXCEPT !.streams[m.out] = @ \o text,
                !.tr.written = @ \o text]

Truthy(v, m) ==
  CASE v.kind = "int"   -> v.n # 0
    [] v.kind = "none"  -> FALSE
    [] v.kind = "str"   -> TRUE
    [] v.kind = "range" -> v.stop > 0
    [] v.kind = "dict"  -> DOMAIN m.bi # {}
    [] OTHER            -> TRUE

\* One resolved name load: the name, the namespace that answered, and
\* whether the load ran inside a function body.
Load(id, from, fn) == [id |-> id, from |-> from, fn |-> fn]

\* LOAD_GLOBAL: the globals, then the builtins of the frame, which are the
\* dict under safe_globals["__builtins__"]; NameError when neither has it.
LoadGlobal(id, m, fn) ==
  IF id \in DOMAIN m.glo
  THEN [v |-> m.glo[id],
        m |-> [m EXCEPT !.tr.loads = @ \cup {Load(id, "globals", fn)}]]
  ELSE IF id \in DOMAIN m.bi
  THEN [v |-> m.bi[id],
        m |-> [m EXCEPT
                 !.tr.loads = @ \cup {Load(id, "builtins", fn)},
                 !.tr.foreign = @ \cup
                    (IF /\ id \notin m.tr.stored
                        /\ \/ id \notin DOMAIN InitAllowedBuiltins
                           \/ m.bi[id] # InitAllowedBuiltins[id]
                     THEN {id} ELSE {})]]
  ELSE [v |-> NoneV,
        m |-> Raise([m EXCEPT !.tr.unresolved =
                                @ \cup {[id |-> id, fn |-> fn]}],
                    "NameError")]

\* LOAD_NAME in the module (locals, globals, builtins), LOAD_GLOBAL for a
\* name declared global, LOAD_FAST for a function's local.
Lookup(id, m, fr) ==
  IF fr.fn
  THEN IF id \in fr.lnames
       THEN IF id \in DOMAIN fr.fl
            THEN [v |-> fr.fl[id],
                  m |-> [m EXCEPT !.tr.loads = @ \cup {Load(id, "fast", TRUE)}]]
            ELSE [v |-> NoneV, m |-> Raise(m, "UnboundLocalError")]
       ELSE LoadGlobal(id, m, TRUE)
  ELSE IF id \notin fr.gnames /\ id \in DOMAIN m.loc
       THEN [v |-> m.loc[id],
             m |-> [m EXCEPT !.tr.loads = @ \cup {Load(id, "locals", FALSE)}]]
       ELSE LoadGlobal(id, m, FALSE)

\* exec given a single namespace: the module's own bindings land in the
\* globals.
StoreOneNamespace(id, v, m, fr) ==
  LET m1 == [m EXCEPT !.tr.bound = @ \cup {id},
                      !.tr.topbound = @ \cup (IF fr.fn THEN {} ELSE {id})]
  IN  IF fr.fn /\ id \in fr.lnames
      THEN [m |-> m1, fr |-> [fr EXCEPT !.fl = Put(fr.fl, id, v)]]
      ELSE [m |-> [m1 EXCEPT !.glo = Put(m.glo, id, v)], fr |-> fr]

\* STORE_FAST / STORE_GLOBAL / STORE_NAME: a function's local goes to its
\* frame, a name declared global to safe_globals, any other name bound by
\* the module's own statements to safe_locals.
Store(id, v, m, fr) ==
  LET m1 == [m EXCEPT !.tr.bound = @ \cup {id},
                      !.tr.topbound = @ \cup (IF fr.fn THEN {} ELSE {id})]
  IN  IF fr.fn
      THEN IF id \in fr.lnames
           THEN [m |-> m1, fr |-> [fr EXCEPT !.fl = Put(fr.fl, id, v)]]
           ELSE [m |-> [m1 EXCEPT !.glo = Put(m.glo, id, v)], fr |-> fr]
      ELSE IF id \in fr.gnames
           THEN [m |-> [m1 EXCEPT !.glo = Put(m.glo, id, v)], fr |-> fr]
           ELSE [m |-> [m1 EXCEPT !.loc = Put(m.loc, id, v)], fr |-> fr]

\* A builtin of the allow list applied to one argument (print takes any
\* number).  The programs of this model pass iterables only to len.
CallBuiltin(nm, vs, m) ==
  IF nm = "print" THEN [v |-> NoneV, m |-> PyPrint(vs, m)]
  ELSE IF Len(vs) # 1 THEN [v |-> NoneV, m |-> Raise(m, "TypeError")]
  ELSE LET a == vs[1]
       IN  CASE nm = "abs" /\ a.kind = "int" ->
                  [v |-> IntV(IF a.n < 0 THEN 0 - a.n ELSE a.n), m |-> m]
             [] nm = "range" /\ a.kind = "int" -> [v |-> RangeV(a.n), m |-> m]
             [] nm = "len" /\ a.kind = "dict" ->
                  [v |-> IntV(Cardinality(DOMAIN m.bi)), m |-> m]
             [] nm = "len" /\ a.kind = "range" ->
                  [v |-> IntV(IF a.stop < 0 THEN 0 ELSE a.stop), m |-> m]
             [] nm = "len" /\ a.kind = "str" -> [v |-> IntV(1), m |-> m]
             [] a.kind \in {"int", "none", "builtin", "function"} ->
                  [v |-> NoneV, m |-> Raise(m, "TypeError")]

RECURSIVE Eval(_, _, _, _)
RECURSIVE EvalArgs(_, _, _, _)
RECURSIVE Apply(_, _, _, _)
RECURSIVE ExecStmt(_, _, _, _)
RECURSIVE ExecBody(_, _, _, _)

\* An expression's value and the machine after evaluating it; with an
\* exception in flight (m.err) the value means nothing.
Eval(e, m, fr, d) ==
  CASE e.type = "Constant" -> [v |-> e.const, m |-> m]
    [] e.type = "Name" -> Lookup(e.id, m, fr)
    [] e.type = "BinOp" ->
         LET l == Eval(e.left, m, fr, d)
         IN  IF l.m.err # NoError THEN l
             ELSE LET r == Eval(e.right, l.m, fr, d)
                  IN  IF r.m.err # NoError THEN r
                      ELSE IF l.v.kind = "int" /\ r.v.kind = "int"
                      THEN [v |-> IntV(l.v.n + r.v.n), m |-> r.m]
                      ELSE [v |-> NoneV, m |-> Raise(r.m, "TypeError")]
    [] e.type = "Attribute" ->
         \* no value of the model has an attribute of the names used
         LET o == Eval(e.value, m, fr, d)
         IN  IF o.m.err # NoError THEN o
             ELSE [v |-> NoneV, m |-> Raise(o.m, "AttributeError")]
    [] e.type = "Subscript" ->
         LET o == Eval(e.value, m, fr, d)
         IN  IF o.m.err # NoError THEN o
             ELSE LET k == Eval(e.slice, o.m, fr, d)
                  IN  IF k.m.err # NoError THEN k
                      ELSE IF o.v.kind = "dict" /\ k.v.kind = "str"
                      THEN IF k.v.s \in DOMAIN k.m.bi
                           THEN [v |-> k.m.bi[k.v.s], m |-> k.m]
                           ELSE [v |-> NoneV, m |-> Raise(k.m, "KeyError")]
                      ELSE IF o.v.kind = "dict"
                      THEN [v |-> NoneV, m |-> Raise(k.m, "KeyError")]
                      ELSE [v |-> NoneV, m |-> Raise(k.m, "TypeError")]
    [] e.type = "Call" ->
         LET f == Eval(e.func, m, fr, d)
         IN  IF f.m.err # NoError THEN f
             ELSE LET as == EvalArgs(e.args, f.m, fr, d)
                  IN  IF as.m.err # NoError THEN [v |-> NoneV, m |-> as.m]
                      ELSE Apply(f.v, as.vs, as.m, d)

EvalArgs(args, m, fr, d) ==
  IF args = <<>> THEN [vs |-> <<>>, m |-> m]
  ELSE LET a == Eval(Head(args), m, fr, d)
       IN  IF a.m.err # NoError THEN [vs |-> <<>>, m |-> a.m]
           ELSE LET rest == EvalArgs(Tail(args), a.m, fr, d)
                IN  [vs |-> <<a.v>> \o rest.vs, m |-> rest.m]

\* A call: a builtin, or a function of the program run in a new frame whose
\* globals are safe_globals.
Apply(f, vs, m, d) ==
  CASE f.kind = "builtin" -> CallBuiltin(f.name, vs, m)
    [] f.kind = "function" ->
         IF Len(vs) # Len(f.params)
         THEN [v |-> NoneV, m |-> Raise(m, "TypeError")]
         ELSE IF d >= MaxDepth
         THEN [v |-> NoneV, m |-> Raise(m, "RecursionError")]
         ELSE LET fr0 == [fn |-> TRUE,
                          fl |-> [x \in {f.params[i] : i \in 1..Len(vs)} |->
                                    vs[CHOOSE i \in 1..Len(vs) : f.params[i] = x]],
                          lnames |-> LocalNames(f.params, f.body),
                          gnames |-> GlobalDecls(f.body)]
                  r == ExecBody(f.body, m, fr0, d + 1)
              IN  [v |-> r.v, m |-> r.m]
    [] OTHER -> [v |-> NoneV, m |-> Raise(m, "TypeError")]

\* One statement: the machine and frame after it, whether it returned, and
\* the value returned.
ExecStmt(s, m, fr, d) ==
  LET Go(m1, fr1) == [m |-> m1, fr |-> fr1, returned |-> FALSE, v |-> NoneV]
  IN
  CASE s.type = "Expr" -> Go(Eval(s.value, m, fr, d).m, fr)
    [] s.type = "Assign" ->
         LET r == Eval(s.value, m, fr, d)
         IN  IF r.m.err # NoError THEN Go(r.m, fr)
             ELSE IF s.target.type = "Name"
             THEN LET st == Store(s.target.id, r.v, r.m, fr) IN Go(st.m, st.fr)
             ELSE \* a subscript target: obj[key] = value
                  LET o == Eval(s.target.value, r.m, fr, d)
                  IN  IF o.m.err # NoError THEN Go(o.m, fr)
                      ELSE LET k == Eval(s.target.slice, o.m, fr, d)
                           IN  IF k.m.err # NoError THEN Go(k.m, fr)
                               ELSE IF o.v.kind = "dict" /\ k.v.kind = "str"
                               THEN Go([k.m EXCEPT
                                          !.bi = Put(k.m.bi, k.v.s, r.v),
                                          !.tr.stored = @ \cup {k.v.s},
                                          !.tr.bound = @ \cup {k.v.s}], fr)
                               ELSE Go(Raise(k.m, "TypeError"), fr)
    [] s.type = "Return" ->
         LET r == Eval(s.value, m, fr, d)
         IN  [m |-> r.m, fr |-> fr, returned |-> r.m.err = NoError, v |-> r.v]
    [] s.type = "Global" -> Go(m, fr)
    [] s.type = "FunctionDef" ->
         LET st == Store(s.name, FunctionV(s.name, s.params, s.body), m, fr)
         IN  Go(st.m, st.fr)
    [] s.type = "If" ->
         LET t == Eval(s.test, m, fr, d)
         IN  IF t.m.err # NoError THEN Go(t.m, fr)
             ELSE IF Truthy(t.v, t.m) THEN ExecBody(s.body, t.m, fr, d)
             ELSE Go(t.m, fr)
    \* the import machinery looks __import__ up in the builtins
    [] s.type \in {"Import", "ImportFrom"} ->
         IF "__import__" \in DOMAIN m.bi THEN Go(Raise(m, "TypeError"), fr)
         ELSE Go(Raise(m, "ImportError"), fr)
    \* no value of the model is a context manager
    [] s.type \in {"With", "AsyncWith"} ->
         LET c == Eval(s.item, m, fr, d)
         IN  IF c.m.err # NoError THEN Go(c.m, fr)
             ELSE Go(Raise(c.m, "TypeError"), fr)

ExecBody(stmts, m, fr, d) ==
  IF stmts = <<>> \/ m.err # NoError
  THEN [m |-> m, fr |-> fr, returned |-> FALSE, v |-> NoneV]
  ELSE LET r == ExecStmt(Head(stmts), m, fr, d)
       IN  IF r.returned \/ r.m.err # NoError THEN r
           ELSE ExecBody(Tail(stmts), r.m, r.fr, d)

(***************************************************************************)
(* The source texts handed to sandbox_run.                                 *)
(***************************************************************************)
K(n) == Constant(IntV(n))

\* print(2)
Benign == Expr(Call(Name("print"), <<K(2)>>))

CalleeSample == {"open", "eval", "os", "print"}
RootSample   == {"os", "sys", "requests", "x"}

BaseExprs ==
  {Call(Name(c), <<K(2)>>) : c \in CalleeSample}
    \cup {Attribute(Name(r), "path") : r \in RootSample}
    \cup {Call(Attribute(Name(r), "system"), <<K(2)>>) : r \in RootSample}
    \cup {Name("os")}

\* An expression inside another: as an argument, as the root of a longer
\* attribute chain, as the callee.
WrappedExprs ==
  {Call(Name("print"), <<e>>) : e \in BaseExprs}
    \cup {Attribute(e, "join") : e \in BaseExprs}
    \cup {Call(e, <<>>) : e \in BaseExprs}

VetLeaves ==
  {Expr(e) : e \in BaseExprs \cup WrappedExprs}
    \cup {Assign(Name("x"), e) : e \in BaseExprs \cup WrappedExprs}
    \cup {Import(<<"os">>), ImportFrom("os", <<"path">>),
          With(Name("x"), <<Benign>>), AsyncWith(Name("x"), <<Benign>>)}

Wrap(S) ==
  {If(K(1), <<s>>) : s \in S} \cup {FunctionDef("f", <<>>, <<s>>) : s \in S}

RECURSIVE Nested(_)
Nested(k) == IF k = 0 THEN VetLeaves ELSE VetLeaves \cup Wrap(Nested(k - 1))

\* A construct at any depth up to MaxNest, alone, after and before print(2).
VetSources ==
  {<<s>> : s \in Nested(MaxNest)}
    \cup {<<Benign, s>> : s \in Nested(MaxNest)}
    \cup {<<s, Benign>> : s \in Nested(MaxNest)}

\* Every name of the two deny sets, called and as the root of an attribute.
TableSources ==
  {<<Expr(Call(Name(d), <<K(2)>>))>> : d \in InitDangerousNames}
    \cup {<<Expr(Attribute(Name(d), "path"))>> : d \in InitDangerousNames}
    \cup {<<Expr(Call(Attribute(Name(d), "system"), <<>>))>> :
            d \in InitDangerousNames}

MalformedSources ==
  {<<Malformed>>, <<Benign, Malformed>>, <<Malformed, Import(<<"os">>)>>,
   <<Import(<<"os">>), Malformed>>,
   <<Expr(Call(Name("open"), <<K(2)>>)), Malformed>>}

ScopeAlphabet ==
  {Global(<<"x">>), Global(<<"f">>), Assign(Name("x"), K(1)),
   FunctionDef("f", <<>>, <<Return(Name("x"))>>),
   FunctionDef("f", <<>>, <<Return(Name("f"))>>),
   Expr(Call(Name("print"), <<Call(Name("f"), <<>>)>>))}

RECURSIVE SeqsUpTo(_, _)
SeqsUpTo(S, n) ==
  IF n = 0 THEN {<<>>}
  ELSE LET shorter == SeqsUpTo(S, n - 1)
       IN  shorter \cup {Append(q, x) : q \in shorter, x \in S}

ScopeSources == SeqsUpTo(ScopeAlphabet, MaxStmts) \ {<<>>}

BuiltinsKey == Subscript(Name("__builtins__"), Constant(StrV("x")))

OtherSources ==
  {<<Expr(Call(Name("print"), <<BinOpAdd(K(2), K(2))>>))>>,
   <<Expr(Call(Name("print"), <<K(2), K(13)>>))>>,
   <<Expr(Call(Name("print"), <<>>))>>,
   <<Assign(Name("x"), K(2))>>,
   <<Assign(Name("x"), K(2)), Expr(Call(Name("print"), <<Name("x")>>))>>,
   <<Expr(Call(Name("print"), <<Name("x")>>))>>,
   <<Benign, Expr(Call(Name("print"), <<Name("x")>>))>>,
   <<Assign(BuiltinsKey, K(7))>>,
   <<Assign(BuiltinsKey, K(7)), Expr(Call(Name("print"), <<Name("x")>>))>>,
   <<Assign(Name("x"), Name("__builtins__"))>>,
   <<Expr(Call(Name("print"),
               <<Call(Name("len"), <<Name("__builtins__")>>)>>))>>,
   <<Expr(Call(Name("print"), <<BuiltinsKey>>))>>,
   <<FunctionDef("f", <<"x">>, <<Return(BinOpAdd(Name("x"), K(1)))>>),
     Expr(Call(Name("print"), <<Call(Name("f"), <<K(41)>>)>>))>>,
   <<FunctionDef("f", <<>>, <<Global(<<"x">>), Assign(Name("x"), K(2))>>),
     Expr(Call(Name("f"), <<>>)),
     Expr(Call(Name("print"), <<Name("x")>>))>>,
   <<Global(<<"f">>),
     FunctionDef("f", <<>>, <<Expr(Call(Name("f"), <<>>))>>),
     Expr(Call(Name("f"), <<>>))>>,
   <<Return(K(1))>>, <<Benign, Return(K(1))>>,
   <<Import(<<"os">>), Return(K(1))>>}

Sources ==
  VetSources \cup TableSources \cup MalformedSources \cup ScopeSources
    \cup OtherSources

(***************************************************************************)
(* The process: the module loaded once, then calls of sandbox_run.         *)
(***************************************************************************)
NoSignal == [kind |-> "none", at |-> "", detail |-> "", lineno |-> 0]
NoOutput == [returned |-> FALSE, text |-> <<>>]
NoTree   == Module(<<>>)
NoTrace  == [executed |-> 0, written |-> <<>>, loads |-> {}, foreign |-> {},
             unresolved |-> {}, bound |-> {}, topbound |-> {}, stored |-> {}]

Init ==
  /\ DANGEROUS_NAMES = InitDangerousNames
  /\ DANGEROUS_ATTR_PARENTS = InitDangerousAttrParents
  /\ ALLOWED_BUILTINS = InitAllowedBuiltins
  /\ pc = "Idle"
  /\ code = <<>>
  /\ tree = NoTree
  /\ todo = <<>>
  /\ visited = 0
  /\ safe_globals = <<>>
  /\ safe_locals = <<>>
  /\ ip = 0
  /\ buf = <<>>
  /\ console = <<>>
  /\ sys_stdout = "console"
  /\ signal = NoSignal
  /\ output = NoOutput
  /\ rendered = "nothing"
  /\ trace = NoTrace

Tables == <<DANGEROUS_NAMES, DANGEROUS_ATTR_PARENTS, ALLOWED_BUILTINS>>

\* The caller invokes sandbox_run(code) (app.py:104, 219).
Receive ==
  /\ pc = "Idle"
  /\ \E src \in Sources : code' = src
  /\ pc' = "Received"
  /\ UNCHANGED <<Tables, tree, todo, visited, safe_globals, safe_locals, ip,
                 buf, console, sys_stdout, signal, output, rendered, trace>>

\* sandbox_run turning a parse failure into a SafetyError.
ParseStepFailClosed ==
  /\ pc = "Received"
  /\ IF FirstMalformed(code) # 0
     THEN /\ pc' = "Raised"
          /\ signal' = [kind |-> "SafetyError", at |-> "ast.parse",
                        detail |-> "invalid syntax",
                        lineno |-> FirstMalformed(code)]
          /\ UNCHANGED <<tree, todo>>
     ELSE /\ pc' = "Parsed"
          /\ tree' = Parse(code)
          /\ todo' = <<Parse(code)>>
          /\ UNCHANGED signal
  /\ UNCHANGED <<Tables, code, visited, safe_globals, safe_locals, ip, buf,
                 console, sys_stdout, output, rendered, trace>>

\* tree = ast.parse(code, mode="exec") (app.py:106); static_checks(tree)
\* starts its walk with the tree in the deque.
ParseStep ==
  /\ pc = "Received"
  /\ IF FirstMalformed(code) # 0
     THEN /\ pc' = "Raised"
          /\ signal' = [kind |-> "SyntaxError", at |-> "ast.parse",
                        detail |-> "invalid syntax",
                        lineno |-> FirstMalformed(code)]
          /\ UNCHANGED <<tree, todo>>
     ELSE /\ pc' = "Parsed"
          /\ tree' = Parse(code)
          /\ todo' = <<Parse(code)>>
          /\ UNCHANGED signal
  /\ UNCHANGED <<Tables, code, visited, safe_globals, safe_locals, ip, buf,
                 console, sys_stdout, output, rendered, trace>>

\* One turn of the loop of static_checks (app.py:43-63).
VetStep ==
  /\ pc = "Parsed"
  /\ todo # <<>>
  /\ LET node == Head(todo)
         rule == CheckNode(node, DANGEROUS_NAMES, DANGEROUS_ATTR_PARENTS)
     IN  /\ todo' = Tail(todo) \o Children(node)
         /\ IF rule # NoRule
            THEN /\ pc' = "Raised"
                 /\ signal' = [kind |-> "SafetyError", at |-> "static_checks",
                               detail |-> rule, lineno |-> 0]
                 /\ UNCHANGED visited
            ELSE /\ visited' = visited + 1
                 /\ UNCHANGED <<pc, signal>>
  /\ UNCHANGED <<Tables, code, tree, safe_globals, safe_locals, ip, buf,
                 console, sys_stdout, output, rendered, trace>>

\* static_checks returning after the first turn of its loop.
VetDoneEarly ==
  /\ pc = "Parsed"
  /\ visited > 0
  /\ pc' = "Vetted"
  /\ UNCHANGED <<Tables, code, tree, todo, visited, safe_globals, safe_locals,
                 ip, buf, console, sys_stdout, signal, output, rendered, trace>>

\* The walk is exhausted: static_checks returns (app.py:107).
VetDone ==
  /\ pc = "Parsed"
  /\ todo = <<>>
  /\ pc' = "Vetted"
  /\ UNCHANGED <<Tables, code, tree, todo, visited, safe_globals, safe_locals,
                 ip, buf, console, sys_stdout, signal, output, rendered, trace>>

\* safe_globals = {"__builtins__": ALLOWED_BUILTINS} (app.py:109): the dict
\* object itself, not a copy.
NewGlobals == [k \in {"__builtins__"} |-> TableV]

\* No redirection: sys.stdout keeps naming the process's stdout.
RedirectNowhere == "console"

\* The stream redirect_stdout(buf) makes sys.stdout name (app.py:112).
RedirectTarget == "buf"

\* compile, the two namespaces, the buffer, entering the with block and the
\* start of exec (app.py:108-113).
Prepare ==
  /\ pc = "Vetted"
  /\ IF CompileError(tree)
     THEN /\ pc' = "Raised"
          /\ signal' = [kind |-> "SyntaxError", at |-> "compile",
                        detail |-> "rejected by the compiler", lineno |-> 1]
          /\ UNCHANGED <<safe_globals, safe_locals, ip, buf, sys_stdout>>
     ELSE /\ pc' = "Executed"
          /\ safe_globals' = NewGlobals
          /\ safe_locals' = <<>>
          /\ buf' = <<>>
          /\ sys_stdout' = RedirectTarget
          /\ ip' = 1
          /\ UNCHANGED signal
  /\ UNCHANGED <<Tables, code, tree, todo, visited, console, output,
                 rendered, trace>>

\* The machine exec runs on, from the state of the process.
Machine ==
  [loc |-> safe_locals, glo |-> safe_globals, bi |-> ALLOWED_BUILTINS,
   streams |-> [console |-> console, buf |-> buf], out |-> sys_stdout,
   err |-> NoError, tr |-> trace]

\* exec runs the next top-level statement of the module (app.py:113); an
\* exception leaves the with block, which restores sys.stdout, and then
\* sandbox_run.
ExecStep ==
  /\ pc = "Executed"
  /\ ip <= Len(tree.body)
  /\ LET m0 == [Machine EXCEPT !.tr.executed = @ + 1]
         r  == ExecStmt(tree.body[ip], m0, ModuleFrame(tree.body), 0)
     IN  /\ safe_locals' = r.m.loc
         /\ safe_globals' = r.m.glo
         /\ ALLOWED_BUILTINS' = r.m.bi
         /\ buf' = r.m.streams.buf
         /\ console' = r.m.streams.console
         /\ trace' = r.m.tr
         /\ IF r.m.err # NoError
            THEN /\ pc' = "Raised"
                 /\ signal' = [kind |-> "RuntimeFailure", at |-> "exec",
                               detail |-> r.m.err, lineno |-> 0]
                 /\ sys_stdout' = "console"
                 /\ UNCHANGED ip
            ELSE /\ ip' = ip + 1
                 /\ UNCHANGED <<pc, signal, sys_stdout>>
  /\ UNCHANGED <<DANGEROUS_NAMES, DANGEROUS_ATTR_PARENTS, code, tree, todo,
                 visited, output, rendered>>

\* exec is done: the with block restores sys.stdout and sandbox_run returns
\* buf.getvalue() (app.py:114).
ReturnOutput ==
  /\ pc = "Executed"
  /\ ip > Len(tree.body)
  /\ sys_stdout' = "console"
  /\ output' = [returned |-> TRUE, text |-> buf]
  /\ pc' = "Completed"
  /\ UNCHANGED <<Tables, code, tree, todo, visited, safe_globals, safe_locals,
                 ip, buf, console, signal, rendered, trace>>

\* The run handler (app.py:217-229) shows the outcome.
Shown ==
  IF pc = "Completed"
  THEN IF Strip(output.text) = <<>> THEN "info: no output" ELSE "code"
  ELSE CASE signal.kind = "SafetyError" -> "error: safety check failed"
         [] signal.kind = "SyntaxError" -> "error: syntax error"
         [] OTHER                       -> "exception"

Render ==
  /\ pc \in {"Completed", "Raised"}
  /\ rendered' = Shown
  /\ pc' = "Rendered"
  /\ UNCHANGED <<Tables, code, tree, todo, visited, safe_globals, safe_locals,
                 ip, buf, console, sys_stdout, signal, output, trace>>

\* The handler is done: what the call held (the source, the tree, the two
\* namespaces, the buffer, the result) is dropped; the module-level tables
\* and the process's stdout stay.
Forget ==
  /\ pc = "Rendered"
  /\ pc' = "Idle"
  /\ code' = <<>>
  /\ tree' = NoTree
  /\ todo' = <<>>
  /\ visited' = 0
  /\ safe_globals' = <<>>
  /\ safe_locals' = <<>>
  /\ ip' = 0
  /\ buf' = <<>>
  /\ signal' = NoSignal
  /\ output' = NoOutput
  /\ rendered' = "nothing"
  /\ trace' = NoTrace
  /\ UNCHANGED <<Tables, console, sys_stdout>>

Next ==
  \/ Receive
  \/ ParseStep
  \/ VetStep
  \/ VetDone
  \/ Prepare
  \/ ExecStep
  \/ ReturnOutput
  \/ Render
  \/ Forget

Spec == Init /\ [][Next]_vars

(***************************************************************************)
(* The claims.                                                             *)
(***************************************************************************)
InCall == pc \notin {"Idle", "Received"}
Ended  == pc \in {"Raised", "Rendered"} /\ signal.kind # "none"
Unparsable == \E i \in 1..Len(code) : code[i].type = "Malformed"

CleanTree(t) ==
  LET ns == Nodes(t)
  IN  \A i \in 1..Len(ns) :
        CheckNode(ns[i], InitDangerousNames, InitDangerousAttrParents) = NoRule

\* C1: exec is reached only after static_checks has looked at every node of
\* the tree without raising; when vetting raises SafetyError, no statement
\* of the program has run or runs, nothing was written, nothing is returned.
C1_VettedBeforeExecuted ==
  /\ (pc \in {"Vetted", "Executed", "Completed"} \/ trace.executed > 0
        \/ output.returned)
       => /\ todo = <<>>
          /\ visited = Len(Nodes(tree))
          /\ CleanTree(tree)
  /\ signal.kind = "SafetyError"
       => /\ trace.executed = 0
          /\ trace.written = <<>>
          /\ buf = <<>>
          /\ ~output.returned
          /\ DOMAIN safe_locals = {}

\* C1's case: vetting raised part of the way through a program whose first
\* statement, print(2), would have run.
C1_Witness ==
  /\ pc = "Rendered"
  /\ signal.kind = "SafetyError"
  /\ code[1] = Benign
  /\ visited > 1
  /\ visited < Len(Nodes(tree))

HasImport(t) ==
  LET ns == Nodes(t)
  IN  \E i \in 1..Len(ns) : ns[i].type \in {"Import", "ImportFrom"}

\* C2: a source that parses and holds an import statement, of either form,
\* anywhere in its tree ends in SafetyError and never reaches compile or exec.
C2_ImportRejected ==
  \/ /\ pc \notin {"Vetted", "Executed", "Completed"}
     /\ trace.executed = 0
     /\ Ended => signal.kind = "SafetyError"
  \/ ~(InCall /\ ~Unparsable /\ HasImport(Module(code)))

\* C2's case: a from-import two compound statements deep, after print(2).
C2_Witness ==
  /\ pc = "Rendered"
  /\ signal.kind = "SafetyError"
  /\ signal.detail = "import"
  /\ Len(tree.body) = 2
  /\ tree.body[2].type \in {"If", "FunctionDef"}
  /\ tree.body[2].body[1].type \in {"If", "FunctionDef"}
  /\ tree.body[2].body[1].body[1].type = "ImportFrom"

HasDangerousCall(t) ==
  LET ns == Nodes(t)
  IN  \E i \in 1..Len(ns) :
        /\ ns[i].type = "Call"
        /\ ns[i].func.type = "Name"
        /\ ns[i].func.id \in InitDangerousNames

\* C3: a source that parses and holds, at any depth, a call whose callee is
\* a bare name of DANGEROUS_NAMES ends in SafetyError.
C3_DangerousCallRejected ==
  \/ /\ pc \notin {"Vetted", "Executed", "Completed"}
     /\ Ended => signal.kind = "SafetyError"
  \/ ~(InCall /\ ~Unparsable /\ HasDangerousCall(Module(code)))

\* C3's case: print(open(2)) inside a def inside an if.
C3_Witness ==
  /\ pc = "Rendered"
  /\ signal.kind = "SafetyError"
  /\ signal.detail = "dangerous name"
  /\ tree.body[1].type = "If"
  /\ tree.body[1].body[1].type = "FunctionDef"
  /\ tree.body[1].body[1].body[1] =
       Expr(Call(Name("print"), <<Call(Name("open"), <<K(2)>>)>>))

HasDangerousAttribute(t) ==
  LET ns == Nodes(t)
  IN  \E i \in 1..Len(ns) :
        /\ ns[i].type = "Attribute"
        /\ ns[i].value.type = "Name"
        /\ ns[i].value.id \in InitDangerousAttrParents

\* C4: an attribute access whose root is a bare name of
\* DANGEROUS_ATTR_PARENTS, called or only read, wherever it stands in the
\* tree, makes static_checks raise SafetyError.
C4_DangerousAttributeRejected ==
  \/ /\ pc \notin {"Vetted", "Executed", "Completed"}
     /\ Ended => (signal.kind = "SafetyError" /\ signal.at = "static_checks")
  \/ ~(InCall /\ ~Unparsable /\ HasDangerousAttribute(Module(code)))

\* C4's case: x = sys.path.join, an attribute that is read and not called,
\* under a longer chain, inside a def.
C4_Witness ==
  /\ pc = "Rendered"
  /\ signal.kind = "SafetyError"
  /\ signal.detail = "dangerous attribute"
  /\ tree.body[1].type = "FunctionDef"
  /\ tree.body[1].body[1] =
       Assign(Name("x"), Attribute(Attribute(Name("sys"), "path"), "join"))

HasPrint(t) ==
  LET ns == Nodes(t)
  IN  \E i \in 1..Len(ns) : ns[i].type = "Name" /\ ns[i].id = "print"

\* C7: when an accepted program has run to completion, sandbox_run returns
\* exactly the text the program wrote to standard output during the run, in
\* write order, and none of it reached the process's own stdout; print(2 + 2)
\* gives text that strips to "4"; a program that never prints gives "".
C7_ReturnsWhatWasWritten ==
  pc = "Completed"
    => /\ output.returned
       /\ output.text = trace.written
       /\ console = <<>>
       /\ sys_stdout = "console"
       /\ code = <<Expr(Call(Name("print"), <<BinOpAdd(K(2), K(2))>>))>>
            => Strip(output.text) = <<"4">>
       /\ ~HasPrint(tree) => output.text = <<>>

\* C7's case: print(2, 13) has returned its five characters.
C7_Witness ==
  /\ pc = "Completed"
  /\ code = <<Expr(Call(Name("print"), <<K(2), K(13)>>))>>
  /\ output.text = <<"2", " ", "1", "3", "\n">>

\* C5: no binding made by the program of one call is seen by the program
\* of a later call: no name load of a call is answered by an entry that an
\* earlier call's program created.
C5_NoBindingSurvives == trace.foreign = {}

\* C6: the two deny sets and the allow list hold exactly their initial
\* contents after any sequence of calls.
C6_TablesNeverMutated ==
  /\ DANGEROUS_NAMES = InitDangerousNames
  /\ DANGEROUS_ATTR_PARENTS = InitDangerousAttrParents
  /\ ALLOWED_BUILTINS = InitAllowedBuiltins

\* The moves of one call.  The exits before exec: SyntaxError out of
\* ast.parse, SafetyError out of static_checks.
StepsAsSpecified ==
  {<<"Idle", "Received">>, <<"Received", "Parsed">>, <<"Parsed", "Parsed">>,
   <<"Parsed", "Vetted">>, <<"Vetted", "Executed">>,
   <<"Executed", "Executed">>, <<"Executed", "Completed">>,
   <<"Completed", "Rendered">>, <<"Raised", "Rendered">>,
   <<"Rendered", "Idle">>,
   <<"Received", "Raised">>, <<"Parsed", "Raised">>, <<"Executed", "Raised">>}

ExitSignal(from) ==
  CASE from = "Received" -> "SyntaxError"
    [] from = "Parsed"   -> "SafetyError"
    [] from = "Vetted"   -> "SyntaxError"
    [] from = "Executed" -> "RuntimeFailure"

StepOf(steps) ==
  /\ <<pc, pc'>> \in steps
  /\ pc' = "Raised" => signal'.kind = ExitSignal(pc)
  /\ pc' # "Raised" => signal' = signal \/ pc' = "Idle"
  /\ Unparsable' => signal'.kind # "SafetyError"

C9_OnlyAllowListResolves ==
  /\ \A l \in trace.loads :
       \/ l.from \in {"fast", "locals"}
       \/ l.from = "globals" /\ l.id \in trace.bound
       \/ l.from = "builtins" /\ l.id \in BuiltinNames
  /\ trace.unresolved # {} => signal.kind = "RuntimeFailure"

AllGlobalDecls(t) ==
  LET ns == Nodes(t)
  IN  UNION {IF ns[i].type \in {"Module", "FunctionDef"}
             THEN GlobalDecls(ns[i].body) ELSE {} : i \in 1..Len(ns)}

====
